---------------------------- MODULE Spec2Model ----------------------------
(***************************************************************************)
(* A model of the bindl wrapper library:                                   *)
(*   - RedisHandler over a redis.Redis connection (redis_wrapper),         *)
(*   - RabbitmqPublisher / RabbitmqConsumer over pika (rabbitmq_wrapper),  *)
(*   - MetricsExporter over prometheus_client (prometheus_wrapper).        *)
(* The wrappers forward to the client libraries, so the model holds the    *)
(* part of each backend the wrappers' calls act on: the Redis keyspace,    *)
(* the broker's queue and the client's delivery buffer, the Prometheus     *)
(* collector registry.                                                     *)
(*                                                                         *)
(* Each subsystem has its own specification (SpecRedis, SpecMQ,            *)
(* SpecMetrics, SpecConn, SpecForm); the variables of the other           *)
(* subsystems stay at their initial values.  SpecMQ starts from            *)
(* constructed instances;                                                  *)
(* SpecCtor starts before construction and follows it to teardown.         *)
(***************************************************************************)
EXTENDS Integers, Sequences, FiniteSets, TLC

VARIABLES
    \* ---- redis_wrapper ----
    store,      \* the Redis keyspace: key -> entry
    lastOp,     \* the last RedisHandler call and what it returned or raised
    pinned,     \* history: key -> the value of the last successful
                \* set_value(key, value) with expiration=None that no later
                \* set_value / delete_key on the key has replaced
    deleted,    \* history: key -> a delete_key(key) succeeded and no set on
                \* the key succeeded since
    timed,      \* history: key -> the value of the last successful
                \* set_value(key, value, expiration) with an expiration that
                \* no later set / delete on the key has replaced, and the
                \* seconds of that expiration that have not yet passed
    \* ---- rabbitmq_wrapper ----
    bound,      \* the broker routes the publisher's routing key to the queue
    nextMsg,    \* the id the next send_message gives its message
    lastPub,    \* the last send_message call and its outcome
    queue,      \* the primary queue: messages ready for delivery
    unacked,    \* delivered to the consumer, acknowledgement outstanding
    acked,      \* acknowledged: the broker has discarded them
    inbox,      \* delivered to the client, callback not yet invoked
    handling,   \* the message the callback is running on (NoMsg: none)
    handled,    \* messages whose callback returned
    failedMsgs, \* messages whose callback raised
    deliveries, \* message -> how many times the broker delivered it
    deadLetter, \* messages routed to the dead-letter destination
    consumer,   \* the consumer: "subscribed" | "consuming" | "closed"
    \* ---- prometheus_wrapper ----
    registry,   \* prometheus_client's default CollectorRegistry: name -> entry
    instruments,\* MetricsExporter's four dicts: kind -> name -> registered
    samples,    \* name -> accumulated state of the instrument
    lastMet,    \* the last MetricsExporter call and its outcome
    \* ---- rabbitmq_wrapper: construction and teardown ----
    env,        \* the process environment: which of RABBITMQ_USER and
                \* RABBITMQ_PASS are set
    provided,   \* the instance's class provides _get_connection_params()
    reachable,  \* the broker accepts connections
    exchange,   \* the broker's record of the publishers' exchange
    obj,        \* publisher / consumer instance -> how its construction
                \* went and the state of its connection and channel
    chanLog,    \* publisher -> the methods called on its channel, in order
    \* ---- redis_wrapper.connection ----
    connection, \* RedisConnectionHandler.__connection (NoConn: None)
    nextConn,   \* the identity of the next Redis object constructed
    created,    \* history: the object the most recent connect() created
    held,       \* caller -> the connection get_connection() handed it
    lastConn,   \* the last RedisConnectionHandler call and its outcome
    \* ---- redis_lib.start_form ----
    form,       \* the module's start_form: "new" | "built" | "failed"
    cache,      \* _StartForm.__cache_date
    lastForm,   \* the last _StartForm call and what it returned
    snapshot,   \* history: key -> what GET gave when start_form was built
    loaded      \* history: load_cache was called after construction

redisVars == <<store, lastOp, pinned, deleted, timed>>
mqVars == <<bound, nextMsg, lastPub, queue, unacked, acked, inbox, handling,
            handled, failedMsgs, deliveries, deadLetter, consumer>>
metVars == <<registry, instruments, samples, lastMet>>
ctorEnv == <<env, provided, reachable, exchange, chanLog>>
ctorVars == <<ctorEnv, obj>>
connVars == <<connection, nextConn, created, held, lastConn>>
formVars == <<form, cache, lastForm, snapshot, loaded>>
vars == <<redisVars, mqVars, metVars, ctorVars, connVars, formVars>>

(***************************************************************************)
(*                              redis_wrapper                              *)
(***************************************************************************)

\* Bound: the largest expiration (seconds) a caller passes.
MaxTTL == 2

Keys == {"k1", "k2"}
Fields == {"f1"}

\* Python values a caller can pass as `value: Any` and that redis-py accepts:
\* str, int, bytes.
PyStr(s) == [t |-> "str", s |-> s, n |-> 0]
PyInt(n) == [t |-> "int", s |-> "", n |-> n]
PyBytes(b) == [t |-> "bytes", s |-> b, n |-> 0]
\* What a handler call gives back besides a value.
PyNone == [t |-> "None", s |-> "", n |-> 0]
RuntimeError == [t |-> "RuntimeError", s |-> "", n |-> 0]

\* A byte string that is not valid UTF-8 (b"\xff").
BadBytes == "\\xff"
Values == {PyStr(""), PyStr("bar"), PyInt(5), PyBytes(BadBytes)}
StrValues == {v \in Values : v.t = "str"}

\* expiration: Optional[int]
NoneExp == -1
Expirations == {NoneExp} \cup (0 .. MaxTTL)

\* Replies of the Redis server.
Nil == "(nil)"
WrongType == "WRONGTYPE"
ErrReply == "ERR"
OK == "OK"

\* repr() of a one-digit int, as redis-py's Encoder writes it.
Repr(n) == <<"0", "1", "2", "3", "4", "5", "6", "7", "8", "9">>[n + 1]

\* redis-py Encoder.encode: what the client sends for a value.
Encode(value) ==
    CASE value.t = "str" -> value.s
      [] value.t = "int" -> Repr(value.n)
      [] value.t = "bytes" -> value.s

\* bytes.decode("utf-8"): a str, or UnicodeDecodeError.
Utf8Valid(b) == b # BadBytes
Decode(b) == PyStr(b)

EmptyHash == [f \in Fields |-> Nil]
Absent == [kind |-> "none", val |-> Nil, fields |-> EmptyHash, ttl |-> 0]
Exists(s, k) == s[k].kind # "none"

\* Faulty variant of RedisSet: the expiration is checked but not applied.
RedisSetWithoutEx(s, k, b, ex) ==
    IF ex # NoneExp /\ ex <= 0
    THEN [store |-> s, reply |-> ErrReply]
    ELSE [store |-> [s EXCEPT ![k] = [kind |-> "string", val |-> b,
                                      fields |-> EmptyHash, ttl |-> 0]],
          reply |-> OK]

\* SET key value [EX seconds]; ttl 0 is "no expiry".
RedisSet(s, k, b, ex) ==
    IF ex # NoneExp /\ ex <= 0
    THEN [store |-> s, reply |-> ErrReply]
    ELSE [store |-> [s EXCEPT ![k] = [kind |-> "string", val |-> b,
                                      fields |-> EmptyHash,
                                      ttl |-> IF ex = NoneExp THEN 0 ELSE ex]],
          reply |-> OK]

\* GET key
RedisGet(s, k) ==
    CASE s[k].kind = "none" -> Nil
      [] s[k].kind = "string" -> s[k].val
      [] s[k].kind = "hash" -> WrongType

\* Faulty variant of RedisDel: a DEL that removes nothing.
RedisDelNothing(s, k) == s

\* DEL key
RedisDel(s, k) == [s EXCEPT ![k] = Absent]

\* HSET name field value
RedisHSet(s, name, f, b) ==
    CASE s[name].kind = "string" -> [store |-> s, reply |-> WrongType]
      [] s[name].kind = "none" ->
            [store |-> [s EXCEPT ![name] = [kind |-> "hash", val |-> Nil,
                                            fields |-> [EmptyHash EXCEPT ![f] = b],
                                            ttl |-> 0]],
             reply |-> OK]
      [] s[name].kind = "hash" ->
            [store |-> [s EXCEPT ![name].fields[f] = b], reply |-> OK]

\* EXPIRE name seconds (seconds > 0)
RedisExpire(s, name, e) ==
    IF Exists(s, name) THEN [s EXCEPT ![name].ttl = e] ELSE s

\* HGET name field
RedisHGet(s, name, f) ==
    CASE s[name].kind = "none" -> Nil
      [] s[name].kind = "string" -> WrongType
      [] s[name].kind = "hash" -> s[name].fields[f]

\* One second passes on the server: keys with an expiry lose a second and
\* are removed when none is left.
Expire(s) ==
    [k \in Keys |->
        IF s[k].ttl = 0 THEN s[k]
        ELSE IF s[k].ttl = 1 THEN Absent
        ELSE [s[k] EXCEPT !.ttl = s[k].ttl - 1]]

\* Faulty variant of DecodeReply: `if value` in place of
\* isinstance(value, bytes), so that b"" reads as None.
DecodeReplyFalsy(reply) ==
    CASE reply \in {WrongType, ErrReply} -> RuntimeError
      [] reply = Nil \/ reply = "" -> PyNone
      [] OTHER -> IF Utf8Valid(reply) THEN Decode(reply) ELSE RuntimeError

\* value.decode("utf-8") if isinstance(value, bytes) else None, inside
\* try / except Exception -> RuntimeError.  `reply` is what the client call
\* gave: Nil (None), an error (the call raised), or bytes.
DecodeReply(reply) ==
    CASE reply \in {WrongType, ErrReply} -> RuntimeError
      [] reply = Nil -> PyNone
      [] OTHER -> IF Utf8Valid(reply) THEN Decode(reply) ELSE RuntimeError

Call(op, k, f, arg, ret, transport, raw) ==
    [op |-> op, key |-> k, field |-> f, arg |-> arg, ret |-> ret,
     transport |-> transport, raw |-> raw]

NoCall == Call("none", "k1", "f1", PyNone, PyNone, FALSE, Nil)

Untimed == [val |-> PyNone, left |-> 0]

RedisInit ==
    /\ store = [k \in Keys |-> Absent]
    /\ lastOp = NoCall
    /\ pinned = [k \in Keys |-> PyNone]
    /\ deleted = [k \in Keys |-> FALSE]
    /\ timed = [k \in Keys |-> Untimed]

\* RedisHandler.set_value(key, value, expiration)
set_value(k, v, ex, fail) ==
    LET r == RedisSet(store, k, Encode(v), ex)
        raised == fail \/ r.reply # OK
    IN /\ store' = IF raised THEN store ELSE r.store
       /\ lastOp' = Call("set_value", k, "f1", v,
                         IF raised THEN RuntimeError ELSE PyNone, fail,
                         IF fail THEN ErrReply ELSE r.reply)
       /\ pinned' = IF raised THEN pinned
                    ELSE [pinned EXCEPT ![k] = IF ex = NoneExp THEN v ELSE PyNone]
       /\ deleted' = IF raised THEN deleted ELSE [deleted EXCEPT ![k] = FALSE]
       /\ timed' = IF raised THEN timed
                   ELSE [timed EXCEPT ![k] = IF ex = NoneExp THEN Untimed
                                             ELSE [val |-> v, left |-> ex]]

\* RedisHandler.get_value(key)
get_value(k, fail) ==
    LET raw == IF fail THEN ErrReply ELSE RedisGet(store, k)
    IN /\ lastOp' = Call("get_value", k, "f1", PyNone, DecodeReply(raw), fail, raw)
       /\ UNCHANGED <<store, pinned, deleted, timed>>

\* RedisHandler.delete_key(key)
delete_key(k, fail) ==
    /\ store' = IF fail THEN store ELSE RedisDel(store, k)
    /\ lastOp' = Call("delete_key", k, "f1", PyNone,
                      IF fail THEN RuntimeError ELSE PyNone, fail,
                      IF fail THEN ErrReply ELSE OK)
    /\ pinned' = IF fail THEN pinned ELSE [pinned EXCEPT ![k] = PyNone]
    /\ deleted' = IF fail THEN deleted ELSE [deleted EXCEPT ![k] = TRUE]
    /\ timed' = IF fail THEN timed ELSE [timed EXCEPT ![k] = Untimed]

\* RedisHandler.set_hash(name, key, value, expiration): hset, then expire
\* `if expiration:`; fail1 / fail2 are transport failures of the two calls.
set_hash(name, f, v, ex, fail1, fail2) ==
    LET h == RedisHSet(store, name, f, Encode(v))
        hsetRaised == fail1 \/ h.reply # OK
        wantsExpire == ex # NoneExp /\ ex # 0
        afterHSet == IF hsetRaised THEN store ELSE h.store
        expireRaised == ~hsetRaised /\ wantsExpire /\ fail2
        raised == hsetRaised \/ expireRaised
    IN /\ store' = IF ~hsetRaised /\ wantsExpire /\ ~fail2
                   THEN RedisExpire(afterHSet, name, ex)
                   ELSE afterHSet
       /\ lastOp' = Call("set_hash", name, f, v,
                         IF raised THEN RuntimeError ELSE PyNone,
                         fail1 \/ expireRaised,
                         IF fail1 THEN ErrReply ELSE h.reply)
       /\ deleted' = IF hsetRaised THEN deleted ELSE [deleted EXCEPT ![name] = FALSE]
       /\ timed' = IF hsetRaised THEN timed ELSE [timed EXCEPT ![name] = Untimed]
       /\ UNCHANGED pinned

\* RedisHandler.get_hash(name, key)
get_hash(name, f, fail) ==
    LET raw == IF fail THEN ErrReply ELSE RedisHGet(store, name, f)
    IN /\ lastOp' = Call("get_hash", name, f, PyNone, DecodeReply(raw), fail, raw)
       /\ UNCHANGED <<store, pinned, deleted, timed>>

\* A second passes; the server expires what is due.
tick ==
    /\ \E k \in Keys : store[k].ttl > 0 \/ timed[k].left > 0
    /\ store' = Expire(store)
    /\ timed' = [k \in Keys |->
                    IF timed[k].left > 0 THEN [timed[k] EXCEPT !.left = @ - 1]
                    ELSE timed[k]]
    /\ UNCHANGED <<lastOp, pinned, deleted>>

SetValue ==
    /\ \E k \in Keys, v \in Values, ex \in Expirations, fail \in BOOLEAN :
          set_value(k, v, ex, fail)
    /\ UNCHANGED <<mqVars, metVars, ctorVars, connVars, formVars>>
GetValue ==
    /\ \E k \in Keys, fail \in BOOLEAN : get_value(k, fail)
    /\ UNCHANGED <<mqVars, metVars, ctorVars, connVars, formVars>>
DeleteKey ==
    /\ \E k \in Keys, fail \in BOOLEAN : delete_key(k, fail)
    /\ UNCHANGED <<mqVars, metVars, ctorVars, connVars, formVars>>
SetHash ==
    /\ \E name \in Keys, f \in Fields, v \in StrValues, ex \in Expirations,
          fail1 \in BOOLEAN, fail2 \in BOOLEAN :
          set_hash(name, f, v, ex, fail1, fail2)
    /\ UNCHANGED <<mqVars, metVars, ctorVars, connVars, formVars>>
GetHash ==
    /\ \E name \in Keys, f \in Fields, fail \in BOOLEAN : get_hash(name, f, fail)
    /\ UNCHANGED <<mqVars, metVars, ctorVars, connVars, formVars>>
Tick ==
    /\ tick
    /\ UNCHANGED <<mqVars, metVars, ctorVars, connVars, formVars>>

RedisNext ==
    \/ SetValue
    \/ GetValue
    \/ DeleteKey
    \/ SetHash
    \/ GetHash
    \/ Tick


(***************************************************************************)
(*                            rabbitmq_wrapper                             *)
(***************************************************************************)

\* Bound: how many messages the publisher sends.
MaxMsgs == 3

Msgs == 1 .. MaxMsgs
NoMsg == 0

\* channel.basic_qos(prefetch_count=1)
PrefetchCount == 1

\* Faulty variant of ChannelSetup: no basic_qos and manual acknowledgements.
NoQosManualAck == [auto_ack |-> FALSE, prefetch_count |-> 0]

\* What RabbitmqConsumer.__create_channel asks of the broker: basic_qos and
\* basic_consume(auto_ack=True).  A prefetch_count of 0 is "no limit".
ChannelSetup == [auto_ack |-> TRUE, prefetch_count |-> PrefetchCount]

\* RabbitmqPublisher.__create_channel opens the channel and declares the
\* exchange; it never calls channel.confirm_delivery().
PublisherConfirms == FALSE

\* pika BlockingChannel.basic_publish: UnroutableError and NackError are
\* raised only in publisher-acknowledgements mode.
BasicPublish(confirms, mandatory, routable, nack) ==
    IF confirms /\ nack THEN "NackError"
    ELSE IF confirms /\ mandatory /\ ~routable THEN "UnroutableError"
    ELSE "ok"

Pub(m, mandatory, routable, ret) ==
    [msg |-> m, mandatory |-> mandatory, routable |-> routable, ret |-> ret]

\* The messages of a set as a sequence, smallest id first.
RECURSIVE SetToSeq(_)
SetToSeq(S) ==
    IF S = {} THEN <<>>
    ELSE LET m == CHOOSE x \in S : \A y \in S : x <= y
         IN <<m>> \o SetToSeq(S \ {m})

MQInit ==
    /\ bound = TRUE
    /\ nextMsg = 1
    /\ lastPub = Pub(NoMsg, FALSE, TRUE, "ok")
    /\ queue = <<>>
    /\ unacked = {}
    /\ acked = {}
    /\ inbox = <<>>
    /\ handling = NoMsg
    /\ handled = {}
    /\ failedMsgs = {}
    /\ deliveries = [m \in Msgs |-> 0]
    /\ deadLetter = {}
    /\ consumer = "subscribed"

consumerVars == <<unacked, acked, inbox, handling, handled, failedMsgs,
                  deliveries, deadLetter, consumer>>

\* RabbitmqPublisher.send_message(body, mandatory)
send_message(mandatory, nack) ==
    LET outcome == BasicPublish(PublisherConfirms, mandatory, bound, nack)
    IN /\ nextMsg <= MaxMsgs
       /\ nextMsg' = nextMsg + 1
       /\ queue' = IF bound /\ outcome # "NackError"
                    THEN Append(queue, nextMsg) ELSE queue
       /\ lastPub' = Pub(nextMsg, mandatory, bound,
                          IF outcome = "ok" THEN "ok" ELSE "RuntimeError")
       /\ UNCHANGED <<bound, consumerVars>>

SendMessage ==
    /\ \E mandatory \in BOOLEAN,
          nack \in (IF PublisherConfirms THEN BOOLEAN ELSE {FALSE}) :
          send_message(mandatory, nack)
    /\ UNCHANGED <<redisVars, metVars, ctorVars, connVars, formVars>>

\* The broker's bindings change: the routing key gains or loses its queue.
Rebind ==
    /\ bound' = ~bound
    /\ UNCHANGED <<nextMsg, lastPub, queue, consumerVars>>
    /\ UNCHANGED <<redisVars, metVars, ctorVars, connVars, formVars>>

\* basic.qos: the broker holds deliveries back while prefetch_count messages
\* are unacknowledged; 0 is "no limit", and auto_ack consumers are not limited.
WithinPrefetch(setup, outstanding) ==
    IF setup.auto_ack \/ setup.prefetch_count = 0 THEN TRUE
    ELSE Cardinality(outstanding) < setup.prefetch_count

\* The broker delivers the head of the queue to the registered consumer.
\* With auto_ack the delivery is its acknowledgement and the prefetch limit
\* does not apply; without it the message stays unacknowledged.
Deliver ==
    /\ consumer \in {"subscribed", "consuming"}
    /\ queue # <<>>
    /\ WithinPrefetch(ChannelSetup, unacked)
    /\ LET m == Head(queue)
       IN /\ queue' = Tail(queue)
          /\ inbox' = Append(inbox, m)
          /\ deliveries' = [deliveries EXCEPT ![m] = @ + 1]
          /\ acked' = IF ChannelSetup.auto_ack THEN acked \cup {m} ELSE acked
          /\ unacked' = IF ChannelSetup.auto_ack THEN unacked ELSE unacked \cup {m}
    /\ UNCHANGED <<bound, nextMsg, lastPub, handling, handled, failedMsgs,
                   deadLetter, consumer>>
    /\ UNCHANGED <<redisVars, metVars, ctorVars, connVars, formVars>>

\* Faulty variant of Startable: start() consumes again on a closed consumer.
StartableAgain(c) == c \in {"subscribed", "closed"}

\* RabbitmqConsumer.start() consumes on the channel __init__ subscribed; on
\* a channel that start() has closed, start_consuming() has no consumer to
\* serve and nothing happens.
Startable(c) == c = "subscribed"

\* RabbitmqConsumer.start(): channel.start_consuming() begins.
Start ==
    /\ Startable(consumer)
    /\ consumer' = "consuming"
    /\ UNCHANGED <<bound, nextMsg, lastPub, queue, unacked, acked, inbox,
                   handling, handled, failedMsgs, deliveries, deadLetter>>
    /\ UNCHANGED <<redisVars, metVars, ctorVars, connVars, formVars>>

\* start_consuming() invokes the callback on the next buffered delivery.
Dispatch ==
    /\ consumer = "consuming"
    /\ handling = NoMsg
    /\ inbox # <<>>
    /\ handling' = Head(inbox)
    /\ inbox' = Tail(inbox)
    /\ UNCHANGED <<bound, nextMsg, lastPub, queue, unacked, acked, handled,
                   failedMsgs, deliveries, deadLetter, consumer>>
    /\ UNCHANGED <<redisVars, metVars, ctorVars, connVars, formVars>>

\* The callback returns.
HandlerReturn ==
    /\ handling # NoMsg
    /\ handled' = handled \cup {handling}
    /\ handling' = NoMsg
    /\ UNCHANGED <<bound, nextMsg, lastPub, queue, unacked, acked, inbox,
                   failedMsgs, deliveries, deadLetter, consumer>>
    /\ UNCHANGED <<redisVars, metVars, ctorVars, connVars, formVars>>

\* start()'s finally: channel and connection are closed.  The client's
\* buffer is dropped; the broker requeues what was unacknowledged.
CloseConsumer ==
    /\ consumer' = "closed"
    /\ obj' = [obj EXCEPT !["con"].chan = "closed", !["con"].conn = "closed"]
    /\ handling' = NoMsg
    /\ inbox' = <<>>
    /\ queue' = SetToSeq(unacked) \o queue
    /\ unacked' = {}

\* The callback raises: the exception leaves start_consuming(), start()
\* prints it and closes.
HandlerRaise ==
    /\ handling # NoMsg
    /\ failedMsgs' = failedMsgs \cup {handling}
    /\ CloseConsumer
    /\ UNCHANGED <<bound, nextMsg, lastPub, acked, handled, deliveries, deadLetter>>
    /\ UNCHANGED <<redisVars, metVars, ctorEnv, connVars, formVars>>

\* KeyboardInterrupt, or another exception out of start_consuming().
Interrupt ==
    /\ consumer = "consuming"
    /\ CloseConsumer
    /\ UNCHANGED <<bound, nextMsg, lastPub, acked, handled, failedMsgs,
                   deliveries, deadLetter>>
    /\ UNCHANGED <<redisVars, metVars, ctorEnv, connVars, formVars>>

MQNext ==
    \/ SendMessage
    \/ Rebind
    \/ Deliver
    \/ Start
    \/ Dispatch
    \/ HandlerReturn
    \/ HandlerRaise
    \/ Interrupt

(***************************************************************************)
(*            rabbitmq_wrapper: construction and teardown                  *)
(***************************************************************************)

\* Two RabbitmqPublisher instances on the same exchange and one
\* RabbitmqConsumer.
Pubs == {"pub1", "pub2"}
Cons == {"con"}
Objs == Pubs \cup Cons

\* An instance and its transport.  status: "new" (not yet constructed),
\* "ready" (__init__ returned) or "failed" (__init__ raised); cause and exc
\* say why and with which exception; conn and chan are "none", "open" or
\* "closed"; attempts counts the connection attempts made.
Instance(status, cause, exc, conn, chan, attempts) ==
    [status |-> status, cause |-> cause, exc |-> exc, conn |-> conn,
     chan |-> chan, attempts |-> attempts]

Unbuilt == Instance("new", "none", "none", "none", "none", 0)
Built == Instance("ready", "none", "none", "open", "open", 1)

\* Faulty variant of CredentialsMissing: fails only when both are absent.
BothCredentialsMissing(e) == ~e.user /\ ~e.pass

\* RabbitMQBase.__init__: os.getenv("RABBITMQ_USER") is None or
\* os.getenv("RABBITMQ_PASS") is None.
CredentialsMissing(e) == ~e.user \/ ~e.pass

\* The broker's exchange record.
NoExchange == [declared |-> FALSE, type |-> "none", durable |-> FALSE]

\* RabbitmqPublisher.__declare_exchange: exchange_declare(exchange_type=
\* "direct", durable=True, auto_delete=False).
ExchangeArgs == [declared |-> TRUE, type |-> "direct", durable |-> TRUE]

\* AMQP exchange.declare: creates the exchange, succeeds without effect on
\* one that exists with the same arguments, fails on one that differs.
ExchangeDeclare(x, args) ==
    IF ~x.declared THEN [ok |-> TRUE, exchange |-> args]
    ELSE [ok |-> x = args, exchange |-> x]

\* Faulty variant of PublisherChannelSetup: the exchange is not declared.
NoChannelSetup == <<>>

\* The methods RabbitmqPublisher.__create_channel calls on the new channel.
PublisherChannelSetup == <<"exchange_declare">>

\* The instances as MQInit assumes them: constructed, transport open.
CtorBuilt ==
    /\ env = [user |-> TRUE, pass |-> TRUE]
    /\ provided = TRUE
    /\ reachable = TRUE
    /\ exchange = ExchangeArgs
    /\ obj = [o \in Objs |-> Built]
    /\ chanLog = [p \in Pubs |-> PublisherChannelSetup]

\* RabbitmqPublisher.__init__: RabbitMQBase.__init__ (credentials),
\* _get_connection_params(), __create_connection(), __create_channel().
\* channel() is called outside the try block, so its exception leaves as it
\* is; a failing exchange_declare is wrapped in RuntimeError.  Neither
\* failure closes the connection that was opened.
publisher_init(p, chanFail, declFail) ==
    LET decl == ExchangeDeclare(exchange, ExchangeArgs)
        declares == \E i \in 1 .. Len(PublisherChannelSetup) :
                        PublisherChannelSetup[i] = "exchange_declare"
    IN /\ obj[p].status = "new"
       /\ IF CredentialsMissing(env)
          THEN /\ obj' = [obj EXCEPT ![p] = Instance("failed", "credentials",
                              "RuntimeError", "none", "none", 0)]
               /\ UNCHANGED <<exchange, chanLog>>
          ELSE IF ~provided
          THEN /\ obj' = [obj EXCEPT ![p] = Instance("failed", "params",
                              "AttributeError", "none", "none", 0)]
               /\ UNCHANGED <<exchange, chanLog>>
          ELSE IF ~reachable
          THEN /\ obj' = [obj EXCEPT ![p] = Instance("failed", "connection",
                              "RuntimeError", "none", "none", 1)]
               /\ UNCHANGED <<exchange, chanLog>>
          ELSE IF chanFail
          THEN /\ obj' = [obj EXCEPT ![p] = Instance("failed", "channel",
                              "AMQPError", "open", "none", 1)]
               /\ UNCHANGED <<exchange, chanLog>>
          ELSE IF declares /\ (declFail \/ ~decl.ok)
          THEN /\ obj' = [obj EXCEPT ![p] = Instance("failed", "setup",
                              "RuntimeError", "open", "closed", 1)]
               /\ chanLog' = [chanLog EXCEPT ![p] = PublisherChannelSetup]
               /\ UNCHANGED exchange
          ELSE /\ obj' = [obj EXCEPT ![p] = Built]
               /\ chanLog' = [chanLog EXCEPT ![p] = PublisherChannelSetup]
               /\ exchange' = IF declares THEN decl.exchange ELSE exchange
       /\ UNCHANGED <<env, provided, reachable>>

\* RabbitmqConsumer.__init__: RabbitMQBase.__init__ (credentials),
\* _get_connection_params(), __create_connection(), __create_channel()
\* (channel, queue_declare, basic_qos, basic_consume).  Both private methods
\* print the exception and raise it again; neither closes the connection.
consumer_init(c, chanFail, setupFail) ==
    /\ obj[c].status = "new"
    /\ IF CredentialsMissing(env)
       THEN /\ obj' = [obj EXCEPT ![c] = Instance("failed", "credentials",
                           "RuntimeError", "none", "none", 0)]
            /\ UNCHANGED consumer
       ELSE IF ~provided
       THEN /\ obj' = [obj EXCEPT ![c] = Instance("failed", "params",
                           "AttributeError", "none", "none", 0)]
            /\ UNCHANGED consumer
       ELSE IF ~reachable
       THEN /\ obj' = [obj EXCEPT ![c] = Instance("failed", "connection",
                           "AMQPConnectionError", "none", "none", 1)]
            /\ UNCHANGED consumer
       ELSE IF chanFail
       THEN /\ obj' = [obj EXCEPT ![c] = Instance("failed", "channel",
                           "AMQPError", "open", "none", 1)]
            /\ UNCHANGED consumer
       ELSE IF setupFail
       THEN /\ obj' = [obj EXCEPT ![c] = Instance("failed", "setup",
                           "AMQPError", "open", "closed", 1)]
            /\ UNCHANGED consumer
       ELSE /\ obj' = [obj EXCEPT ![c] = Built]
            /\ consumer' = "subscribed"
    /\ UNCHANGED <<env, provided, reachable, exchange, chanLog>>

\* The state before any instance is constructed.
CtorInit ==
    /\ env \in [user : BOOLEAN, pass : BOOLEAN]
    /\ provided \in BOOLEAN
    /\ reachable \in BOOLEAN
    /\ exchange = NoExchange
    /\ obj = [o \in Objs |-> Unbuilt]
    /\ chanLog = [p \in Pubs |-> <<>>]
    /\ bound = TRUE
    /\ nextMsg = 1
    /\ lastPub = Pub(NoMsg, FALSE, TRUE, "ok")
    /\ queue = <<>>
    /\ unacked = {}
    /\ acked = {}
    /\ inbox = <<>>
    /\ handling = NoMsg
    /\ handled = {}
    /\ failedMsgs = {}
    /\ deliveries = [m \in Msgs |-> 0]
    /\ deadLetter = {}
    /\ consumer = "unbuilt"

ConstructPublisher ==
    /\ \E p \in Pubs, chanFail \in BOOLEAN, declFail \in BOOLEAN :
          publisher_init(p, chanFail, declFail)
    /\ UNCHANGED <<mqVars, redisVars, metVars, connVars, formVars>>

ConstructConsumer ==
    /\ \E c \in Cons, chanFail \in BOOLEAN, setupFail \in BOOLEAN :
          consumer_init(c, chanFail, setupFail)
    /\ UNCHANGED <<bound, nextMsg, lastPub, queue, unacked, acked, inbox,
                   handling, handled, failedMsgs, deliveries, deadLetter>>
    /\ UNCHANGED <<redisVars, metVars, connVars, formVars>>

\* The broker stops or resumes accepting connections.
BrokerFlips ==
    /\ reachable' = ~reachable
    /\ UNCHANGED <<env, provided, exchange, chanLog, obj>>
    /\ UNCHANGED <<mqVars, redisVars, metVars, connVars, formVars>>

\* send_message on a constructed publisher: basic_publish on its channel.
SendOn ==
    /\ \E p \in Pubs, mandatory \in BOOLEAN :
          /\ obj[p].status = "ready"
          /\ send_message(mandatory, FALSE)
          /\ chanLog' = [chanLog EXCEPT ![p] = Append(@, "basic_publish")]
    /\ UNCHANGED <<env, provided, reachable, exchange, obj>>
    /\ UNCHANGED <<redisVars, metVars, connVars, formVars>>

CtorNext ==
    \/ ConstructPublisher
    \/ ConstructConsumer
    \/ BrokerFlips
    \/ SendOn
    \/ Deliver
    \/ Start
    \/ Dispatch
    \/ HandlerReturn
    \/ HandlerRaise
    \/ Interrupt

(***************************************************************************)
(*                       redis_wrapper.connection                          *)
(***************************************************************************)

\* Bound: how many times connect() is called.
MaxConnects == 3

\* self.__connection = None
NoConn == 0

\* The code that asks the handler for its connection.
Callers == {"c1", "c2", "c3"}

\* A call: ret is "ok" or the exception raised, conn the object returned.
ConnCall(op, caller, ret, conn) ==
    [op |-> op, caller |-> caller, ret |-> ret, conn |-> conn]

\* Faulty variant of Connect: a connection already made is kept.
ConnectKeepsFirst(current, new) == IF current = NoConn THEN new ELSE current

\* RedisConnectionHandler.connect: self.__connection = Redis(host, port, db).
\* redis-py's Redis(...) builds a client with a lazy connection pool: it
\* opens no socket and does not raise, so the except branch is not taken.
Connect(current, new) == new

\* RedisConnectionHandler.get_connection: RedisConnectionError while
\* self.__connection is None, the connection itself otherwise.
GetConnection(current) ==
    IF current = NoConn THEN "RedisConnectionError" ELSE "ok"

ConnInit ==
    /\ connection = NoConn
    /\ nextConn = 1
    /\ created = NoConn
    /\ held = [c \in Callers |-> NoConn]
    /\ lastConn = ConnCall("none", "none", "ok", NoConn)

connect ==
    /\ nextConn <= MaxConnects
    /\ connection' = Connect(connection, nextConn)
    /\ created' = nextConn
    /\ nextConn' = nextConn + 1
    /\ lastConn' = ConnCall("connect", "none", "ok", connection')
    /\ UNCHANGED held

get_connection(c) ==
    /\ lastConn' = ConnCall("get_connection", c, GetConnection(connection),
                             connection)
    /\ held' = IF GetConnection(connection) = "ok"
               THEN [held EXCEPT ![c] = connection] ELSE held
    /\ UNCHANGED <<connection, nextConn, created>>

\* A caller is done with the connection it was handed: the handler has no
\* operation for this, the caller lets go of the reference.
drop(c) ==
    /\ held[c] # NoConn
    /\ held' = [held EXCEPT ![c] = NoConn]
    /\ UNCHANGED <<connection, nextConn, created, lastConn>>

ConnectCall ==
    /\ connect
    /\ UNCHANGED <<redisVars, mqVars, metVars, ctorVars, formVars>>

GetConnectionCall ==
    /\ \E c \in Callers : get_connection(c)
    /\ UNCHANGED <<redisVars, mqVars, metVars, ctorVars, formVars>>

DropCall ==
    /\ \E c \in Callers : drop(c)
    /\ UNCHANGED <<redisVars, mqVars, metVars, ctorVars, formVars>>

ConnNext ==
    \/ ConnectCall
    \/ GetConnectionCall
    \/ DropCall

(***************************************************************************)
(*                          redis_lib.start_form                           *)
(***************************************************************************)

\* A dict with str keys: key -> value, PyNone for a key that is not in it.
EmptyDict == [k \in Keys |-> PyNone]

\* The dicts callers pass to load_cache.
Dicts == {EmptyDict, [EmptyDict EXCEPT !["k1"] = PyStr("baz")]}

\* `if value:` on what get_value returned.
Truthy(v) == v.t = "str" /\ v.s # ""

\* Faulty variant of Snapshot: without `if value:`, empty strings are kept.
SnapshotKeepsEmpty(st) ==
    [k \in Keys |->
        LET v == DecodeReply(RedisGet(st, k))
        IN IF v.t = "str" THEN v ELSE PyNone]

\* _StartForm.__init__: for every key of keys("*"), get_value(key) is stored
\* when it is truthy.
Snapshot(st) ==
    [k \in Keys |->
        LET v == DecodeReply(RedisGet(st, k))
        IN IF Truthy(v) THEN v ELSE PyNone]

\* get_value raises on a key of keys("*"): the key holds a hash or bytes
\* that are not UTF-8.
SnapshotRaises(st) ==
    \E k \in Keys : Exists(st, k) /\ DecodeReply(RedisGet(st, k)) = RuntimeError

\* _StartForm.get_cache
CacheLookup(c, k) == IF c # EmptyDict /\ c[k] # PyNone THEN c[k] ELSE PyNone

FormCall(op, k, ret) == [op |-> op, key |-> k, ret |-> ret]

FormInit ==
    /\ form = "new"
    /\ cache = EmptyDict
    /\ lastForm = FormCall("none", "k1", PyNone)
    /\ snapshot = [k \in Keys |-> Nil]
    /\ loaded = FALSE

\* start_form = _StartForm(): connect(), keys("*"), get_value per key,
\* load_cache.  The reads go through the form's own RedisHandler.
start_form_init(fail) ==
    /\ form = "new"
    /\ IF fail \/ SnapshotRaises(store)
       THEN /\ form' = "failed"
            /\ cache' = cache
            /\ lastForm' = FormCall("__init__", "k1", RuntimeError)
            /\ UNCHANGED snapshot
       ELSE /\ form' = "built"
            /\ cache' = Snapshot(store)
            /\ lastForm' = FormCall("__init__", "k1", PyNone)
            /\ snapshot' = [k \in Keys |-> RedisGet(store, k)]
    /\ UNCHANGED loaded

load_cache(data) ==
    /\ form = "built"
    /\ cache' = data
    /\ lastForm' = FormCall("load_cache", "k1", PyNone)
    /\ loaded' = TRUE
    /\ UNCHANGED <<form, snapshot>>

get_cache(k) ==
    /\ form = "built"
    /\ lastForm' = FormCall("get_cache", k, CacheLookup(cache, k))
    /\ UNCHANGED <<form, cache, snapshot, loaded>>

BuildForm ==
    /\ \E fail \in BOOLEAN : start_form_init(fail)
    /\ UNCHANGED <<redisVars, mqVars, metVars, ctorVars, connVars>>

LoadCache ==
    /\ \E data \in Dicts : load_cache(data)
    /\ UNCHANGED <<redisVars, mqVars, metVars, ctorVars, connVars>>

GetCache ==
    /\ \E k \in Keys : get_cache(k)
    /\ UNCHANGED <<redisVars, mqVars, metVars, ctorVars, connVars>>

\* The backend changes under the form: keys are set, with an expiry of one
\* second or none, and deleted.
BackendSet ==
    /\ \E k \in Keys, v \in Values, ex \in {NoneExp, 1} :
          set_value(k, v, ex, FALSE)
    /\ UNCHANGED <<mqVars, metVars, ctorVars, connVars, formVars>>

BackendDelete ==
    /\ \E k \in Keys : delete_key(k, FALSE)
    /\ UNCHANGED <<mqVars, metVars, ctorVars, connVars, formVars>>

FormNext ==
    \/ BuildForm
    \/ LoadCache
    \/ GetCache
    \/ BackendSet
    \/ BackendDelete
    \/ Tick

(***************************************************************************)
(*                           prometheus_wrapper                            *)
(***************************************************************************)

\* Bound: the largest accumulated value an instrument is driven to.
MaxSum == 2

Names == {"m1", "m2"}
Kinds == {"counter", "gauge", "histogram", "summary"}
\* label_names given at registration, and the keys of `labels` given at an
\* update ({}: None or an empty dict).  Every label value is "x".
Schemas == {{}, {"a"}}
LabelSets == {{}, {"a"}, {"b"}}
Amounts == {1, 2}

Unregistered == [kind |-> "none", labels |-> {}]
Zero == [count |-> 0, sum |-> 0]

Met(op, kind, name, labels, ret, logged, known, before, changed) ==
    [op |-> op, kind |-> kind, name |-> name, labels |-> labels, ret |-> ret,
     logged |-> logged, known |-> known, before |-> before, changed |-> changed]

MetricsInit ==
    /\ registry = [n \in Names |-> Unregistered]
    /\ instruments = [k \in Kinds |-> {}]
    /\ samples = [n \in Names |-> Zero]
    /\ lastMet = Met("none", "counter", "m1", {}, "ok", FALSE, FALSE, Unregistered, FALSE)

\* Counter(name, ...) / Gauge / Histogram / Summary: the constructor adds the
\* collector to the default registry and raises ValueError when the name is
\* already there; then self.<kind>s[name] = <the metric>.
Register(kind, name, labels) ==
    LET duplicate == registry[name].kind # "none"
    IN /\ registry' = IF duplicate THEN registry
                       ELSE [registry EXCEPT ![name] = [kind |-> kind, labels |-> labels]]
       /\ instruments' = IF duplicate THEN instruments
                          ELSE [instruments EXCEPT ![kind] = @ \cup {name}]
       /\ samples' = samples
       /\ lastMet' = Met("register", kind, name, labels,
                          IF duplicate THEN "ValueError" ELSE "ok", FALSE,
                          name \in instruments[kind], registry[name],
                          registry' # registry \/ instruments' # instruments)

register_counter(name, labels) == Register("counter", name, labels)
register_gauge(name, labels) == Register("gauge", name, labels)
register_histogram(name, labels) == Register("histogram", name, labels)
register_summary(name, labels) == Register("summary", name, labels)

\* The instrument's state after inc(value) / set(value) / observe(value).
Apply(kind, s, value) ==
    CASE kind = "counter" -> [s EXCEPT !.sum = @ + value]
      [] kind = "gauge" -> [s EXCEPT !.sum = value]
      [] OTHER -> [count |-> s.count + 1, sum |-> s.sum + value]

\* metric.labels(**labels) raises ValueError unless the keys are the
\* metric's label names; an update on a metric that has label names, without
\* labels, raises ValueError too.
LabelsAccepted(name, labels) == labels = registry[name].labels

\* Faulty variant of Update: self.<kind>s[name] in place of .get(name), so
\* that an unregistered name raises KeyError.
UpdateRaisingKeyError(kind, name, labels, value) ==
    LET known == name \in instruments[kind]
        accepted == known /\ LabelsAccepted(name, labels)
    IN /\ accepted => Apply(kind, samples[name], value).sum <= MaxSum
       /\ samples' = IF accepted
                      THEN [samples EXCEPT ![name] = Apply(kind, @, value)]
                      ELSE samples
       /\ lastMet' = Met("update", kind, name, labels,
                          IF ~known THEN "KeyError"
                          ELSE IF accepted THEN "ok" ELSE "ValueError",
                          FALSE, known, registry[name], samples' # samples)
       /\ UNCHANGED <<registry, instruments>>

\* self.<kind>s.get(name); None: warn and return; else update the metric (or
\* its labelled child).
Update(kind, name, labels, value) ==
    LET known == name \in instruments[kind]
        accepted == known /\ LabelsAccepted(name, labels)
    IN /\ accepted => Apply(kind, samples[name], value).sum <= MaxSum
       /\ samples' = IF accepted
                      THEN [samples EXCEPT ![name] = Apply(kind, @, value)]
                      ELSE samples
       /\ lastMet' = Met("update", kind, name, labels,
                          IF known /\ ~accepted THEN "ValueError" ELSE "ok",
                          ~known, known, registry[name], samples' # samples)
       /\ UNCHANGED <<registry, instruments>>

inc_counter(name, labels, value) == Update("counter", name, labels, value)
set_gauge(name, value, labels) == Update("gauge", name, labels, value)
observe_histogram(name, value, labels) == Update("histogram", name, labels, value)
observe_summary(name, value, labels) == Update("summary", name, labels, value)

RegisterCounter ==
    /\ \E n \in Names, l \in Schemas : register_counter(n, l)
    /\ UNCHANGED <<redisVars, mqVars, ctorVars, connVars, formVars>>
RegisterGauge ==
    /\ \E n \in Names, l \in Schemas : register_gauge(n, l)
    /\ UNCHANGED <<redisVars, mqVars, ctorVars, connVars, formVars>>
RegisterHistogram ==
    /\ \E n \in Names, l \in Schemas : register_histogram(n, l)
    /\ UNCHANGED <<redisVars, mqVars, ctorVars, connVars, formVars>>
RegisterSummary ==
    /\ \E n \in Names, l \in Schemas : register_summary(n, l)
    /\ UNCHANGED <<redisVars, mqVars, ctorVars, connVars, formVars>>
IncCounter ==
    /\ \E n \in Names, l \in LabelSets, v \in Amounts : inc_counter(n, l, v)
    /\ UNCHANGED <<redisVars, mqVars, ctorVars, connVars, formVars>>
SetGauge ==
    /\ \E n \in Names, l \in LabelSets, v \in Amounts : set_gauge(n, v, l)
    /\ UNCHANGED <<redisVars, mqVars, ctorVars, connVars, formVars>>
ObserveHistogram ==
    /\ \E n \in Names, l \in LabelSets, v \in Amounts : observe_histogram(n, v, l)
    /\ UNCHANGED <<redisVars, mqVars, ctorVars, connVars, formVars>>
ObserveSummary ==
    /\ \E n \in Names, l \in LabelSets, v \in Amounts : observe_summary(n, v, l)
    /\ UNCHANGED <<redisVars, mqVars, ctorVars, connVars, formVars>>

MetricsNext ==
    \/ RegisterCounter
    \/ RegisterGauge
    \/ RegisterHistogram
    \/ RegisterSummary
    \/ IncCounter
    \/ SetGauge
    \/ ObserveHistogram
    \/ ObserveSummary

(***************************************************************************)
(*                                 Claims                                  *)
(***************************************************************************)

IsGet == lastOp.op = "get_value"

\* C1 (as stated): after set_value(key, value) with no expiration, a later
\* get_value(key) that the backend answers returns exactly that value, until
\* the key is deleted or set again.
C1_GetReturnsExactValue ==
    (IsGet /\ ~lastOp.transport /\ pinned[lastOp.key] # PyNone)
        => lastOp.ret = pinned[lastOp.key]

\* C1 (amended): after set_value(key, value) with no expiration, a later
\* get_value(key) that the backend answers returns exactly that value when
\* it is a str, and its decimal text when it is an int, whatever happened to
\* other keys and however much time passed, until the key is deleted or set
\* again.
C1_GetReturnsStrValue ==
    (IsGet /\ ~lastOp.transport) =>
        /\ pinned[lastOp.key].t = "str" => lastOp.ret = pinned[lastOp.key]
        /\ pinned[lastOp.key].t = "int" => lastOp.ret = PyStr(Repr(pinned[lastOp.key].n))

\* C1 witness: get_value gave back a str written earlier, the empty one
\* included, while the other key holds something else.
C1_Witness ==
    /\ IsGet
    /\ pinned[lastOp.key] = PyStr("")
    /\ lastOp.ret = PyStr("")
    /\ \E k \in Keys \ {lastOp.key} : Exists(store, k)

\* C5: get_value / get_hash return None exactly when the key or field does
\* not exist, and raise only on a transport or protocol failure (a value that
\* exists is returned, never an error and never None).
C5_AbsentOnlyWhenMissing ==
    lastOp.op \in {"get_value", "get_hash"} =>
        /\ (lastOp.ret = PyNone) <=> (lastOp.raw = Nil)
        /\ lastOp.ret = RuntimeError => (lastOp.transport \/ lastOp.raw = WrongType)

\* C10: a get_value(key) after a delete_key(key), with no set on the key in
\* between, returns None (or raises because the transport failed): it never
\* returns a value.
C10_GetAfterDeleteIsNone ==
    (IsGet /\ deleted[lastOp.key]) =>
        \/ lastOp.ret = PyNone
        \/ lastOp.transport /\ lastOp.ret = RuntimeError

\* C10 witness: the backend answered a get_value on a deleted key with None
\* while the other key is still there.
C10_Witness ==
    /\ IsGet
    /\ ~lastOp.transport
    /\ deleted[lastOp.key]
    /\ lastOp.ret = PyNone
    /\ \E k \in Keys \ {lastOp.key} : Exists(store, k)

\* C11: a key written by set_value with expiration t is present for
\* get_value (and read back exactly, for a str value) while fewer than t
\* seconds have passed since the write, and get_value returns None once t
\* seconds have passed; a key written with expiration=None stays present.
\* (The first part is about the step that is the get_value call: time does
\* not pass in it, so the seconds left are those at the call.)
C11_GetStep ==
    (/\ lastOp'.op = "get_value"
     /\ ~lastOp'.transport
     /\ store' = store
     /\ timed' = timed
     /\ timed[lastOp'.key].val # PyNone) =>
        IF timed[lastOp'.key].left > 0
        THEN /\ lastOp'.ret # PyNone
             /\ timed[lastOp'.key].val.t = "str" => lastOp'.ret = timed[lastOp'.key].val
        ELSE lastOp'.ret = PyNone
C11_ExpiresAfterTTL ==
    /\ [][C11_GetStep]_vars
    /\ [](\A k \in Keys : pinned[k] # PyNone => RedisGet(store, k) # Nil)

\* C11 witness: get_value found a key gone whose expiration has passed,
\* while the other key, written without expiration, is still there.
C11_Witness ==
    /\ IsGet
    /\ ~lastOp.transport
    /\ timed[lastOp.key].val = PyStr("bar")
    /\ timed[lastOp.key].left = 0
    /\ lastOp.ret = PyNone
    /\ \E k \in Keys \ {lastOp.key} : pinned[k] # PyNone

\* C11 witness, before the expiry: the key is read back with a second left.
C11_WitnessAlive ==
    /\ IsGet
    /\ timed[lastOp.key].val = PyStr("bar")
    /\ timed[lastOp.key].left = 1
    /\ lastOp.ret = PyStr("bar")

\* C20: set_hash is all-or-nothing: a call that raises RuntimeError leaves
\* the keyspace as it was, and a call that returns has written the field.
\* (Stated of the steps in which the recorded call changes: those are
\* RedisHandler calls, never the passing of time.)
C20_SetHashStep ==
    (lastOp' # lastOp /\ lastOp'.op = "set_hash") =>
        IF lastOp'.ret = RuntimeError
        THEN store' = store
        ELSE /\ store'[lastOp'.key].kind = "hash"
             /\ store'[lastOp'.key].fields[lastOp'.field] = Encode(lastOp'.arg)
C20_SetHashAllOrNothing == [][C20_SetHashStep]_vars

Range(q) == {q[i] : i \in 1 .. Len(q)}

\* C2: a message is acknowledged only after the callback returned for it.
C2_AckOnlyAfterHandlerReturned == acked \subseteq handled

C4_FailedMessageNotLost ==
    \A m \in failedMsgs :
        m \in Range(queue) \cup Range(inbox) \cup unacked \cup deadLetter \cup {handling}

\* C6: send_message with mandatory=True fails when the routing key routes to
\* no queue, and send_message with mandatory=False returns without error.
C6_MandatoryUnroutableFails ==
    lastPub.msg # NoMsg =>
        /\ (lastPub.mandatory /\ ~lastPub.routable) => lastPub.ret = "RuntimeError"
        /\ ~lastPub.mandatory => lastPub.ret = "ok"

\* C7: registering a name that is registered with the same kind and the same
\* label names raises nothing and keeps the instrument; with other label
\* names it fails.
C7_ReRegisterIsIdempotent ==
    (lastMet.op = "register" /\ lastMet.known) =>
        IF lastMet.before.labels = lastMet.labels
        THEN lastMet.ret = "ok" /\ ~lastMet.changed
        ELSE lastMet.ret # "ok"

\* C8: an update whose label set is not the instrument's registered label
\* names returns without raising and changes nothing.
C8_LabelMismatchIsDropped ==
    (lastMet.op = "update" /\ lastMet.known /\ lastMet.labels # lastMet.before.labels)
        => lastMet.ret = "ok" /\ ~lastMet.changed

\* C9: an update under a name that is not registered for that kind logs a
\* warning, returns without raising and changes no instrument.
C9_UnregisteredUpdateIsDropped ==
    (lastMet.op = "update" /\ ~lastMet.known)
        => lastMet.ret = "ok" /\ lastMet.logged /\ ~lastMet.changed

\* C9 witness: an update of the wrong kind on a name that another kind
\* registered and updated.
C9_Witness ==
    /\ lastMet.op = "update"
    /\ ~lastMet.known
    /\ lastMet.logged
    /\ registry[lastMet.name].kind # "none"
    /\ samples[lastMet.name].sum > 0

\* C12: on a publisher's channel every basic_publish comes after an
\* exchange_declare on that channel; the exchange a constructed publisher
\* publishes to is declared durable, and a further publisher declaring it
\* again leaves it as it was.
C12_DeclaredBeforePublish ==
    \A p \in Pubs :
        /\ \A i \in 1 .. Len(chanLog[p]) :
              chanLog[p][i] = "basic_publish" =>
                  \E j \in 1 .. (i - 1) : chanLog[p][j] = "exchange_declare"
        /\ obj[p].status = "ready" =>
              /\ exchange.declared
              /\ exchange.durable
              /\ exchange.type = "direct"

\* Both publishers were constructed, so the exchange was declared twice, and
\* one of them has published.
C12_Witness ==
    /\ \A p \in Pubs : obj[p].status = "ready"
    /\ \E p \in Pubs : \E i \in 1 .. Len(chanLog[p]) :
          chanLog[p][i] = "basic_publish"
    /\ exchange.durable

\* C13: an instance that is no longer usable, because its constructor raised
\* after the connection was opened or because the consumer stopped, has no
\* open connection.
C13_NoOpenConnectionLeft ==
    /\ \A o \in Objs : obj[o].status = "failed" => obj[o].conn # "open"
    /\ consumer = "closed" => obj["con"].conn = "closed"

\* C14: the consumer's channel and connection are closed only when no
\* callback is running, or when the running callback finishes in that step.
C14_CloseStep ==
    (consumer # "closed" /\ consumer' = "closed") =>
        \/ handling = NoMsg
        \/ handling \in handled' \cup failedMsgs'

C14_CloseAfterHandlersDone == [][C14_CloseStep]_vars

\* C15: a constructor call fails with the credentials error, before any
\* connection attempt, exactly when RABBITMQ_USER or RABBITMQ_PASS is not
\* set.
C15_FailsFastIffCredentialMissing ==
    \A o \in Objs :
        obj[o].status # "new" =>
            /\ obj[o].cause = "credentials" <=> ~(env.user /\ env.pass)
            /\ obj[o].cause = "credentials" =>
                  /\ obj[o].status = "failed"
                  /\ obj[o].exc = "RuntimeError"
                  /\ obj[o].attempts = 0
                  /\ obj[o].conn = "none"

\* One variable is set, the other is not, and the constructor raised for
\* it.
C15_Witness ==
    /\ env.user /\ ~env.pass
    /\ \E o \in Objs : obj[o].cause = "credentials"

\* C16: a constructor gives up with a connection error only after it tried
\* again, and never makes more than five attempts.
C16_ConnectFailureIsRetried ==
    \A o \in Objs :
        /\ obj[o].attempts <= 5
        /\ obj[o].cause = "connection" => obj[o].attempts > 1

\* C17: a connection goes from absent to open to closed and no other way;
\* once closed it stays closed with its instance as it is, the closed
\* consumer stays closed, and no delivery is buffered or handled on it.
C17_Step ==
    /\ \A o \in Objs :
          /\ <<obj[o].conn, obj'[o].conn>> \in
                {<<"none", "none">>, <<"none", "open">>, <<"open", "open">>,
                 <<"open", "closed">>, <<"closed", "closed">>}
          /\ obj[o].conn = "closed" => obj'[o] = obj[o]
    /\ consumer = "closed" =>
          /\ consumer' = "closed"
          /\ handling' = NoMsg
          /\ inbox' = <<>>

C17_ClosedIsTerminal == [][C17_Step]_vars

\* The consumer was constructed, consumed and closed, and a message waits
\* in the queue that the closed consumer does not get.
C17_Witness ==
    /\ consumer = "closed"
    /\ obj["con"].conn = "closed"
    /\ queue # <<>>
    /\ handled # {}

\* C18: with capacity 1, at most one caller at a time holds the connection
\* the handler gave out.
C18_AtMostCapacityLeases ==
    Cardinality({c \in Callers : held[c] # NoConn}) <= 1

\* C19: get_connection() raises RedisConnectionError exactly when connect()
\* was never called, and otherwise returns the object the most recent
\* connect() created.
C19_GetConnection ==
    lastConn.op = "get_connection" =>
        /\ lastConn.ret = "RedisConnectionError" <=> nextConn = 1
        /\ lastConn.ret = "ok" <=> lastConn.conn # NoConn
        /\ lastConn.ret = "ok" => lastConn.conn = created

\* get_connection() after a second connect().
C19_Witness ==
    /\ lastConn.op = "get_connection"
    /\ lastConn.ret = "ok"
    /\ created > 1
    /\ lastConn.conn = created

\* get_connection() before any connect().
C19_WitnessRaises ==
    /\ lastConn.op = "get_connection"
    /\ lastConn.ret = "RedisConnectionError"

\* C21: with both credential variables set, a constructor fails only for a
\* cause at the broker (connection, channel or set-up); otherwise it returns
\* with connection and channel open, the exchange declared for a publisher
\* and the consumer subscribed.
C21_ConstructionCompletes ==
    \A o \in Objs :
        (/\ env.user /\ env.pass
         /\ obj[o].status # "new"
         /\ obj[o].cause \notin {"connection", "channel", "setup"}) =>
            /\ obj[o].status = "ready"
            /\ o \in Pubs =>
                  /\ obj[o].conn = "open" /\ obj[o].chan = "open"
                  /\ exchange.declared
            /\ o \in Cons =>
                  /\ consumer # "unbuilt"
                  /\ consumer # "closed" =>
                        obj[o].conn = "open" /\ obj[o].chan = "open"

\* C22: until load_cache is called, get_cache(key) returns the non-empty
\* string the backend held for key when start_form was built and None for
\* any other key; a set_value, delete_key or expiry on the backend changes
\* neither the cache nor what get_cache returns; the cache changes only in
\* the constructor and in load_cache, and get_cache reads it.
C22_Held(key) ==
    IF snapshot[key] \notin {Nil, ""}
    THEN PyStr(snapshot[key])
    ELSE PyNone

C22_Step ==
    /\ redisVars' # redisVars => formVars' = formVars
    /\ cache' # cache => lastForm'.op \in {"__init__", "load_cache"}
    /\ (lastForm' # lastForm /\ lastForm'.op = "get_cache") =>
          /\ cache' = cache
          /\ lastForm'.ret = cache[lastForm'.key]

C22_WitnessLoaded ==
    /\ lastForm.op = "get_cache"
    /\ loaded
    /\ lastForm.ret = PyStr("baz")

(***************************************************************************)
(*                             Specifications                              *)
(***************************************************************************)

Init == RedisInit /\ MQInit /\ MetricsInit /\ CtorBuilt /\ ConnInit /\ FormInit

\* Construction starts from instances not yet built.
InitCtor == RedisInit /\ CtorInit /\ MetricsInit /\ ConnInit /\ FormInit

SpecRedis == Init /\ [][RedisNext]_vars
SpecMQ == Init /\ [][MQNext]_vars
SpecMetrics == Init /\ [][MetricsNext]_vars
SpecCtor == InitCtor /\ [][CtorNext]_vars
SpecConn == Init /\ [][ConnNext]_vars
SpecForm == Init /\ [][FormNext]_vars

=============================================================================
